---- MODULE Spec2Model ----
(***************************************************************************)
(* Hawkeye (src/hawkeye.js): the Signal family (Signal, AudioSignal,       *)
(* BlinkerSignal, ComposeSignal), the Hawkeye change watcher with its      *)
(* ignore_too_early_call filter, and the nagios_hawk controller.           *)
(*                                                                         *)
(* The program is single-threaded and callback driven: every action below  *)
(* is one complete run of one handler (a frame load, a MutationObserver    *)
(* callback, a click listener, an interval callback) or, in ApiSpec, one   *)
(* complete call of one method of a signal object.                         *)
(***************************************************************************)
EXTENDS Integers, Sequences, FiniteSets, TLC

(***************************************************************************)
(* Bounds of the model.                                                    *)
(***************************************************************************)
\* Number of Hawkeye watchers nagios_hawk.attack may build in one behaviour;
\* watcher w is built for the w-th birdseye document, whose elements are
\* be-hosts (the source) and be-dash (the target) of that document.
MaxWatchers == 2
\* Longest target list a direct caller of add() builds (ApiSpec), and the
\* number of distinct elements it adds.  (In Spec the list has one target
\* for each watcher that is connected and not yet disconnected.)
MaxTargets == 1
MaxElems == 1

\* The longest target list of the BlinkerSignal when it is used on its own.
MaxBlinkerTargets == 2
\* Date.now() advances in steps of TimeStep up to MaxTime: a notification
\* comes at the time its watcher was built, at the end of the window of
\* 3000 (the last instant inside it), or after the window.
TimeStep == 3000
MaxTime == 6000

(***************************************************************************)
(* Program constants.                                                      *)
(***************************************************************************)
undefined == 0
\* delta of ignore_too_early_call(signal.start, 3000)
delta == 3000
\* The two class names given to BlinkerSignal by nagios_hawk.
on == "sos-on"
off == "sos-off"
\* The pattern given to BlinkerSignal by nagios_hawk, one character per entry.
ShippedPattern ==
    << " ", " ", "-", " ", "-", " ", "-", " ", " ", " ", "-", "-", "-", " ",
       " ", " ", "-", "-", "-", " ", " ", " ", "-", "-", "-", " ", " ", " ",
       "-", " ", "-", " ", "-", " ", " " >>
\* Patterns a direct caller builds a BlinkerSignal with (ApiSpec); the first
\* is the one of the example in the documentation comment of BlinkerSignal.
Patterns == { << " ", "-" >>, << "-", " ", " " >>, << "-" >> }
\* The list given to ComposeSignal by nagios_hawk: [sos, alarm].
signals == << "sos", "alarm" >>

\* The target elements: element w is be-dash of the document watcher w is
\* built for; a direct caller (ApiSpec) adds the elements of ApiElems.
ApiElems == 1..MaxElems
Elems == 1..MaxWatchers \cup ApiElems

VARIABLES
    pattern,        \* BlinkerSignal: the pattern parameter
    sos_timer,      \* BlinkerSignal: timer (undefined or an interval id)
    sos_i,          \* BlinkerSignal: i, the cursor (0-based)
    sos_targets,    \* BlinkerSignal: targets of its Signal()
    alarm_timer,    \* AudioSignal: timer (undefined or an interval id)
    alarm_targets,  \* AudioSignal: targets of its Signal()
    intervals,      \* the active setInterval schedules: records [id, fn]
    classList,      \* classList of every be-dash element (sos classes only)
    hawks,          \* the Hawkeye instances built so far (a sequence)
    observer,       \* nagios_hawk: observer (undefined or a watcher index)
    listeners,      \* elements with signal.stop registered as click listener
    now,            \* Date.now()
    handler,        \* the handler or method that ran last
    log             \* calls made by that run: sub-signal calls, audio.play()

vars == << pattern, sos_timer, sos_i, sos_targets, alarm_timer, alarm_targets,
           intervals, classList, hawks, observer, listeners, now, handler,
           log >>

(***************************************************************************)
(* The state the objects read and write, as one record, so that a handler  *)
(* that makes several calls is the composition of their effects.           *)
(***************************************************************************)
Cur ==
    [ sos_timer |-> sos_timer, sos_i |-> sos_i, sos_targets |-> sos_targets,
      alarm_timer |-> alarm_timer, alarm_targets |-> alarm_targets,
      intervals |-> intervals, classList |-> classList, hawks |-> hawks,
      observer |-> observer, listeners |-> listeners, log |-> << >> ]

Commit(s) ==
    /\ sos_timer' = s.sos_timer
    /\ sos_i' = s.sos_i
    /\ sos_targets' = s.sos_targets
    /\ alarm_timer' = s.alarm_timer
    /\ alarm_targets' = s.alarm_targets
    /\ intervals' = s.intervals
    /\ classList' = s.classList
    /\ hawks' = s.hawks
    /\ observer' = s.observer
    /\ listeners' = s.listeners
    /\ log' = s.log

\* Range of a sequence.
Range(q) == { q[k] : k \in 1..Len(q) }

\* log(message): one line of console output.
Log(s, message) == [s EXCEPT !.log = Append(@, << "log", message >>)]

\* The record of a call of method op of object obj, kept in the same log.
Rec(s, obj, op) == [s EXCEPT !.log = Append(@, << obj, op >>)]

\* An exception is thrown: it is recorded in the log, and the code that
\* would have run after the throwing call, up to the handler's end, is
\* skipped (the source has no try statement).
Throw(s, error) == Rec(s, "throw", error)

Threw(s) == \E k \in 1..Len(s.log) : s.log[k][1] = "throw"

(***************************************************************************)
(* Timers of the environment.                                              *)
(***************************************************************************)
\* setInterval returns an id that no active schedule has.
FreshId(s) ==
    CHOOSE n \in 1..(Cardinality(s.intervals) + 1) :
        /\ \A t \in s.intervals : t.id # n
        /\ \A m \in 1..(n - 1) : \E t \in s.intervals : t.id = m

setInterval(s, fn) ==
    [s EXCEPT !.intervals = @ \cup { [id |-> FreshId(s), fn |-> fn] }]

clearInterval(s, id) ==
    [s EXCEPT !.intervals = { t \in @ : t.id # id }]

(***************************************************************************)
(* AudioSignal                                                             *)
(***************************************************************************)
\* audio.play()
AudioPlay(s) == Rec(s, "audio", "play")

\* audio.play() when playback fails: the promise it returns is rejected, and
\* nothing in the source looks at that promise.
AudioPlayRejected(s) == Rec(AudioPlay(s), "audio", "rejected")

\* Replay that gives up its schedule when playback fails.
Replay_CancelsOnFailure(s, ok) ==
    IF ok
    THEN AudioPlay(s)
    ELSE [clearInterval(AudioPlayRejected(s), s.alarm_timer)
             EXCEPT !.alarm_timer = undefined]

\* function() { audio.play(); }, the callback AudioSignal.start gives to
\* setInterval; ok tells whether playback succeeds.
Replay(s, ok) == IF ok THEN AudioPlay(s) ELSE AudioPlayRejected(s)

\* AudioStart that disarms an armed alarm.
AudioStart_Toggle(s) ==
    IF s.alarm_timer = undefined
    THEN LET p == AudioPlay(Log(s, "Hawk: start alarm"))
         IN  [setInterval(p, "play") EXCEPT !.alarm_timer = FreshId(p)]
    ELSE [clearInterval(s, s.alarm_timer) EXCEPT !.alarm_timer = undefined]

AudioStart(s) ==
    IF s.alarm_timer = undefined
    THEN LET p == AudioPlay(Log(s, "Hawk: start alarm"))
         IN  [setInterval(p, "play") EXCEPT !.alarm_timer = FreshId(p)]
    ELSE s

\* AudioStop without the call of clearInterval.
AudioStop_NoClear(s) ==
    IF s.alarm_timer # undefined
    THEN [Log(s, "Hawk: stop alarm") EXCEPT !.alarm_timer = undefined]
    ELSE s

AudioStop(s) ==
    IF s.alarm_timer # undefined
    THEN LET p == Log(s, "Hawk: stop alarm")
         IN  [clearInterval(p, p.alarm_timer) EXCEPT !.alarm_timer = undefined]
    ELSE s

\* add and empty of the Signal() that AudioSignal owns
AudioAdd(s, element) == [s EXCEPT !.alarm_targets = Append(@, element)]

AudioEmpty(s) == [s EXCEPT !.alarm_targets = << >>]

(***************************************************************************)
(* BlinkerSignal                                                           *)
(***************************************************************************)
\* pattern[i], with i counted from 0 as in the source
PatternAt(k) == pattern[k + 1]

\* Paint that adds a class without removing the other.
Paint_NoRemove(cl, k) ==
    IF PatternAt(k) = "-"
    THEN cl \cup {on}
    ELSE cl \cup {off}

\* The body of the forEach callback of update, for one element.
Paint(cl, k) ==
    IF PatternAt(k) = "-"
    THEN (cl \ {off}) \cup {on}
    ELSE (cl \ {on}) \cup {off}

\* BlinkerUpdate that paints and leaves i where it is.
BlinkerUpdate_NoAdvance(s) ==
    [s EXCEPT
        !.classList = [e \in Elems |->
                          IF e \in Range(s.sos_targets)
                          THEN Paint(s.classList[e], s.sos_i)
                          ELSE s.classList[e]]]

\* update: targets.forEach paints the targets in list order; a target that
\* is no element (undefined, or the null of a failed getElementById) has no
\* classList, so the callback throws a TypeError there: the targets before
\* it are painted, those after it are not, and i is not advanced.
BlinkerUpdate(s) ==
    LET bad == { k \in 1..Len(s.sos_targets) : s.sos_targets[k] \notin Elems }
        reached == IF bad = {}
                   THEN s.sos_targets
                   ELSE SubSeq(s.sos_targets, 1,
                               (CHOOSE k \in bad : \A j \in bad : k <= j) - 1)
        painted == [s EXCEPT
                       !.classList = [e \in Elems |->
                                         IF e \in Range(reached)
                                         THEN Paint(s.classList[e], s.sos_i)
                                         ELSE s.classList[e]]]
    IN  IF bad = {}
        THEN [painted EXCEPT !.sos_i = (s.sos_i + 1) % Len(pattern)]
        ELSE Throw(painted, "TypeError")

\* BlinkerStart without the test of timer.
BlinkerStart_Unguarded(s) ==
    LET p == Log(s, "Hawk: start blinker")
    IN  [setInterval(p, "update") EXCEPT !.sos_timer = FreshId(p)]

BlinkerStart(s) ==
    IF s.sos_timer = undefined
    THEN LET p == Log(s, "Hawk: start blinker")
         IN  [setInterval(p, "update") EXCEPT !.sos_timer = FreshId(p)]
    ELSE s

\* BlinkerStop without the call of update.
BlinkerStop_NoUpdate(s) ==
    LET c == IF s.sos_timer # undefined
             THEN LET p == Log(s, "Hawk: stop blinker")
                  IN  [clearInterval(p, p.sos_timer)
                           EXCEPT !.sos_timer = undefined]
             ELSE s
    IN  [c EXCEPT !.sos_i = 0]

\* BlinkerStop without the reset of i.
BlinkerStop_NoReset(s) ==
    LET c == IF s.sos_timer # undefined
             THEN LET p == Log(s, "Hawk: stop blinker")
                  IN  [clearInterval(p, p.sos_timer)
                           EXCEPT !.sos_timer = undefined]
             ELSE s
    IN  BlinkerUpdate(c)

BlinkerStop(s) ==
    LET c == IF s.sos_timer # undefined
             THEN LET p == Log(s, "Hawk: stop blinker")
                  IN  [clearInterval(p, p.sos_timer)
                           EXCEPT !.sos_timer = undefined]
             ELSE s
    IN  BlinkerUpdate([c EXCEPT !.sos_i = 0])

\* BlinkerAdd that also paints the element it adds.
BlinkerAdd_Paints(s, element) ==
    [s EXCEPT !.sos_targets = Append(@, element),
              !.classList = [e \in Elems |->
                                IF e = element
                                THEN Paint(s.classList[e], s.sos_i)
                                ELSE s.classList[e]]]

\* add and empty of the Signal() that BlinkerSignal owns
BlinkerAdd(s, element) == [s EXCEPT !.sos_targets = Append(@, element)]

\* BlinkerEmpty that also cancels the schedule.
BlinkerEmpty_Cancels(s) ==
    [clearInterval(s, s.sos_timer) EXCEPT !.sos_targets = << >>,
                                          !.sos_timer = undefined]

BlinkerEmpty(s) == [s EXCEPT !.sos_targets = << >>]

(***************************************************************************)
(* ComposeSignal([sos, alarm])                                             *)
(***************************************************************************)
\* The method op of the object sig (sos is the BlinkerSignal, alarm the
\* AudioSignal), as frozen into the object each constructor returns.
Method(s, sig, op, element) ==
    CASE sig = "sos" /\ op = "start" -> BlinkerStart(s)
      [] sig = "sos" /\ op = "stop" -> BlinkerStop(s)
      [] sig = "sos" /\ op = "add" -> BlinkerAdd(s, element)
      [] sig = "sos" /\ op = "empty" -> BlinkerEmpty(s)
      [] sig = "alarm" /\ op = "start" -> AudioStart(s)
      [] sig = "alarm" /\ op = "stop" -> AudioStop(s)
      [] sig = "alarm" /\ op = "add" -> AudioAdd(s, element)
      [] sig = "alarm" /\ op = "empty" -> AudioEmpty(s)

\* One call signal.op(element) made by a forEach callback of ComposeSignal;
\* the call is recorded in the log before it runs.
Invoke(s, sig, op, element) == Method(Rec(s, sig, op), sig, op, element)

\* signals.forEach(function (signal) { signal.op(element); })
\* ForEach from the last signal of the list to the first.
RECURSIVE ForEach_Reversed(_, _, _, _)
ForEach_Reversed(s, list, op, element) ==
    IF list = << >>
    THEN s
    ELSE Invoke(ForEach_Reversed(s, Tail(list), op, element),
                Head(list), op, element)

\* ForEach that goes on with the next signal after one has thrown.
RECURSIVE ForEach_Isolated(_, _, _, _)
ForEach_Isolated(s, list, op, element) ==
    IF list = << >>
    THEN s
    ELSE ForEach_Isolated(Invoke(s, Head(list), op, element),
                          Tail(list), op, element)

RECURSIVE ForEach(_, _, _, _)
ForEach(s, list, op, element) ==
    IF list = << >> \/ Threw(s)
    THEN s
    ELSE ForEach(Invoke(s, Head(list), op, element), Tail(list), op, element)

\* The four methods of the ComposeSignal, which nagios_hawk names signal;
\* each call is recorded in the log as it is entered.
\* ComposeStart that starts the first signal of the list only.
ComposeStart_FirstOnly(s) ==
    ForEach(Rec(s, "signal", "start"), << Head(signals) >>, "start", undefined)

ComposeStart(s) ==
    ForEach(Rec(s, "signal", "start"), signals, "start", undefined)

\* ComposeStop that stops the first signal of the list only.
ComposeStop_FirstOnly(s) ==
    ForEach(Rec(s, "signal", "stop"), << Head(signals) >>, "stop", undefined)

ComposeStop(s) ==
    ForEach(Rec(s, "signal", "stop"), signals, "stop", undefined)

ComposeAdd(s, element) ==
    ForEach(Rec(s, "signal", "add"), signals, "add", element)

ComposeEmpty(s) ==
    ForEach(Rec(s, "signal", "empty"), signals, "empty", undefined)

(***************************************************************************)
(* Hawkeye (the change watcher)                                            *)
(***************************************************************************)
\* The elements Hawkeye number w is built with: source is be-hosts and
\* targets is [be-dash] of the document that was loaded when it was built.
SourceOf(w) == << "be-hosts", w >>

TargetsOf(w) == << w >>

ClickablesOf(w) == { SourceOf(w) } \cup { << "be-dash", e >> : e \in Range(TargetsOf(w)) }

\* ignore_too_early_call: the closure variables after one call at time t ...
TooEarlyNext(h, t) ==
    [h EXCEPT !.early = IF t - h.mark <= delta THEN TRUE ELSE h.early,
              !.first = FALSE]

\* TooEarlyCalls with the window tested on every call.
TooEarlyCalls_EveryCall(h, t) == ~(t - h.mark <= delta)

\* ... and whether that call reaches fnct()
TooEarlyCalls(h, t) ==
    LET early == IF t - h.mark <= delta THEN TRUE ELSE h.early
    IN  ~early \/ ~h.first

\* Hawkeye(source, targets, signal) at time t: the MutationObserver is
\* created around the filter, whose closure is created with it.
HawkeyeNew(s, t) ==
    [Log(s, "Hawk: looking")
        EXCEPT !.hawks = Append(@, [ first |-> TRUE, early |-> TRUE,
                                     mark |-> t, observing |-> FALSE ])]

RECURSIVE AddAll(_, _)
AddAll(s, list) ==
    IF list = << >>
    THEN s
    ELSE AddAll(ComposeAdd(s, Head(list)), Tail(list))

\* Connect that starts the filter of the watcher afresh.
Connect_ResetsFirst(s, w) ==
    LET c == [Log(s, "Hawk: start observing")
                 EXCEPT !.hawks[w].observing = TRUE,
                        !.hawks[w].first = TRUE,
                        !.listeners = @ \cup ClickablesOf(w)]
    IN  AddAll(c, TargetsOf(w))

Connect(s, w) ==
    LET c == [Log(s, "Hawk: start observing")
                 EXCEPT !.hawks[w].observing = TRUE,
                        !.listeners = @ \cup ClickablesOf(w)]
    IN  AddAll(c, TargetsOf(w))

Disconnect(s, w) ==
    LET c == [Log(s, "Hawk: stop observing")
                 EXCEPT !.hawks[w].observing = FALSE,
                        !.listeners = @ \ ClickablesOf(w)]
        stopped == ComposeStop(c)
    IN  IF Threw(stopped) THEN stopped ELSE ComposeEmpty(stopped)

\* The function returned by ignore_too_early_call, called at time t.
Callback(s, w, t) ==
    LET d == IF t - s.hawks[w].mark <= delta
             THEN Log(s, "Hawk: drop too early first change event")
             ELSE s
        c == IF TooEarlyCalls(s.hawks[w], t) THEN ComposeStart(d) ELSE d
        n == TooEarlyNext(s.hawks[w], t)
    IN  IF Threw(c)
        THEN [c EXCEPT !.hawks[w].early = n.early]
        ELSE [c EXCEPT !.hawks[w] = n]

(***************************************************************************)
(* nagios_hawk (the controller)                                            *)
(***************************************************************************)
Attack(s, t) ==
    LET w == Len(s.hawks) + 1
        a == Log(Log(s, "Hawk: attack"), "Hawk: source and targets")
    IN  Connect([HawkeyeNew(a, t) EXCEPT !.observer = w], w)

Rest(s) ==
    LET r == Log(s, "Hawk: rest")
    IN  IF r.observer # undefined THEN Disconnect(r, r.observer) ELSE r

Wake(s, is_birdseye, t) ==
    LET k == Log(s, "Hawk: wake")
    IN  IF is_birdseye
        THEN Attack(Log(k, "Hawk: is birdseye an iframe? yes"), t)
        ELSE Rest(Log(k, "Hawk: is birdseye an iframe? no"))

(***************************************************************************)
(* Initial state: the signal objects are built; BlinkerSignal's constructor *)
(* has called stop() on its empty target list.  In Init nagios_hawk built  *)
(* them, with the shipped pattern.                                         *)
(***************************************************************************)
Constructed ==
    [ sos_timer |-> undefined, sos_i |-> 0, sos_targets |-> << >>,
      alarm_timer |-> undefined, alarm_targets |-> << >>,
      intervals |-> {}, classList |-> [e \in Elems |-> {}],
      hawks |-> << >>, observer |-> undefined, listeners |-> {},
      log |-> << >> ]

InitWith(p, c) ==
    /\ pattern = p
    /\ now = 0
    /\ handler = "new"
    /\ LET s == BlinkerStop(c)
       IN  /\ sos_timer = s.sos_timer
           /\ sos_i = s.sos_i
           /\ sos_targets = s.sos_targets
           /\ alarm_timer = s.alarm_timer
           /\ alarm_targets = s.alarm_targets
           /\ intervals = s.intervals
           /\ classList = s.classList
           /\ hawks = s.hawks
           /\ observer = s.observer
           /\ listeners = s.listeners
           /\ log = s.log

Init == InitWith(ShippedPattern, Log(Constructed, "Hawk: start"))

(***************************************************************************)
(* The handlers the environment runs.                                      *)
(***************************************************************************)
\* The load event of the main frame: a new document is in the frame and
\* wake runs; is_birdseye is what is_birdseye() returns for it.
Load(is_birdseye) ==
    /\ is_birdseye => Len(hawks) < MaxWatchers
    /\ Commit(Wake(Cur, is_birdseye, now))
    /\ handler' = "load"
    /\ UNCHANGED << pattern, now >>

\* The MutationObserver of watcher w reports a child list change.
Change(w) ==
    /\ w \in 1..Len(hawks)
    /\ hawks[w].observing
    /\ Commit(Callback(Cur, w, now))
    /\ handler' = "change"
    /\ UNCHANGED << pattern, now >>

\* A click on an element that has signal.stop as a click listener.
Click(el) ==
    /\ el \in listeners
    /\ Commit(ComposeStop(Cur))
    /\ handler' = "click"
    /\ UNCHANGED << pattern, now >>

\* The schedule of BlinkerSignal fires: update runs.
TickUpdate ==
    /\ \E t \in intervals : t.fn = "update"
    /\ Commit(BlinkerUpdate(Cur))
    /\ handler' = "update"
    /\ UNCHANGED << pattern, now >>

\* The schedule of AudioSignal fires: function() { audio.play(); } runs.
TickPlay ==
    /\ \E t \in intervals : t.fn = "play"
    /\ Commit(Replay(Cur, TRUE))
    /\ handler' = "replay"
    /\ UNCHANGED << pattern, now >>

\* The same, in an environment where playback fails (no audio file, or
\* autoplay refused): the program's variables end as in TickPlay.
TickPlayFails ==
    /\ \E t \in intervals : t.fn = "play"
    /\ Commit(Replay(Cur, FALSE))
    /\ handler' = "replay"
    /\ UNCHANGED << pattern, now >>

\* Time passes.
Advance ==
    /\ now + TimeStep <= MaxTime
    /\ now' = now + TimeStep
    /\ Commit(Cur)
    /\ handler' = "clock"
    /\ UNCHANGED pattern

Next ==
    \/ \E b \in BOOLEAN : Load(b)
    \/ \E w \in 1..MaxWatchers : Change(w)
    \/ \E el \in listeners : Click(el)
    \/ TickUpdate
    \/ TickPlay
    \/ Advance

Spec == Init /\ [][Next]_vars

\* Spec with the timers of the environment: an interval that stays active
\* keeps firing, so each of the two callbacks is weakly fair.
FairSpec == Spec /\ WF_vars(TickUpdate) /\ WF_vars(TickPlay)

\* The callback given to the MutationObserver of watcher w is called although
\* that observer is disconnected (a notification delivered spuriously).
Stale(w) ==
    /\ w \in 1..Len(hawks)
    /\ ~hawks[w].observing
    /\ Commit(Callback(Cur, w, now))
    /\ handler' = "stale"
    /\ UNCHANGED << pattern, now >>

StaleNext ==
    \/ Next
    \/ \E w \in 1..MaxWatchers : Stale(w)

\* Spec in an environment that may deliver such notifications.
StaleSpec == Init /\ [][StaleNext]_vars

(***************************************************************************)
(* Direct use of the signal objects: a caller holding a BlinkerSignal, an  *)
(* AudioSignal and the ComposeSignal of the two calls their methods in any *)
(* order, between the ticks of their schedules.                            *)
(***************************************************************************)
Ops == { "start", "stop", "add", "empty" }

\* The target list an add on object sig appends to.
Grows(sig) ==
    CASE sig = "sos" -> { sos_targets }
      [] sig = "alarm" -> { alarm_targets }
      [] sig = "signal" -> { sos_targets, alarm_targets }

Compose(s, op, element) ==
    CASE op = "start" -> ComposeStart(s)
      [] op = "stop" -> ComposeStop(s)
      [] op = "add" -> ComposeAdd(s, element)
      [] op = "empty" -> ComposeEmpty(s)

\* sig.op(element), called directly.
Call(sig, op, element) ==
    /\ op = "add" => element \in Elems /\ \A q \in Grows(sig) : Len(q) < MaxTargets
    /\ op # "add" => element = undefined
    /\ Commit(IF sig = "signal"
              THEN Compose(Cur, op, element)
              ELSE Method(Cur, sig, op, element))
    /\ handler' = sig \o "." \o op
    /\ UNCHANGED << pattern, now >>

ApiInit == \E p \in Patterns : InitWith(p, Constructed)

ApiNext ==
    \/ \E sig \in { "sos", "alarm", "signal" }, op \in Ops,
          element \in ApiElems \cup { undefined } : Call(sig, op, element)
    \/ TickUpdate
    \/ TickPlay
    \/ TickPlayFails

ApiSpec == ApiInit /\ [][ApiNext]_vars

(***************************************************************************)
(* Direct use of Hawkeye objects: a caller builds watchers on a signal of  *)
(* its own and calls connect() and disconnect() on them in any order,      *)
(* connect() on a watcher that is not connected only; the observers of the *)
(* connected ones report changes, clicks arrive and the timers tick.       *)
(***************************************************************************)
\* Hawkeye(source, targets, signal)
Build ==
    /\ Len(hawks) < MaxWatchers
    /\ Commit(HawkeyeNew(Cur, now))
    /\ handler' = "looking"
    /\ UNCHANGED << pattern, now >>

\* connect() of watcher w
WatcherConnect(w) ==
    /\ w \in 1..Len(hawks)
    /\ ~hawks[w].observing
    /\ Commit(Connect(Cur, w))
    /\ handler' = "connect"
    /\ UNCHANGED << pattern, now >>

\* disconnect() of watcher w
WatcherDisconnect(w) ==
    /\ w \in 1..Len(hawks)
    /\ Commit(Disconnect(Cur, w))
    /\ handler' = "disconnect"
    /\ UNCHANGED << pattern, now >>

WatcherNext ==
    \/ Build
    \/ \E w \in 1..MaxWatchers : WatcherConnect(w)
    \/ \E w \in 1..MaxWatchers : WatcherDisconnect(w)
    \/ \E w \in 1..MaxWatchers : Change(w)
    \/ \E el \in listeners : Click(el)
    \/ TickUpdate
    \/ TickPlay
    \/ Advance

\* The caller's signal is a ComposeSignal of a BlinkerSignal with a pattern
\* of two symbols and an AudioSignal.
WatcherInit == InitWith(<< "-", " " >>, Constructed)

WatcherSpec == WatcherInit /\ [][WatcherNext]_vars

(***************************************************************************)
(* ComposeSignal with a failing sub-signal: a caller holds the ComposeSignal*)
(* of the blinker and the alarm and a second one of the same two signals   *)
(* in the other order, and may add a value that is no element, on which    *)
(* the blinker's update() throws.                                          *)
(***************************************************************************)
\* The list of each of the two ComposeSignal objects.
Composed(name) ==
    IF name = "signal" THEN signals ELSE << signals[2], signals[1] >>

\* name.op(element), called directly.
ComposedCall(name, op, element) ==
    /\ op = "add" =>
           Len(sos_targets) < MaxTargets /\ Len(alarm_targets) < MaxTargets
    /\ op # "add" => element = undefined
    /\ Commit(ForEach(Rec(Cur, name, op), Composed(name), op, element))
    /\ handler' = name \o "." \o op
    /\ UNCHANGED << pattern, now >>

FailNext ==
    \/ \E name \in { "signal", "reversed" }, op \in Ops,
          element \in ApiElems \cup { undefined } :
              ComposedCall(name, op, element)
    \/ TickUpdate
    \/ TickPlay

FailSpec == ApiInit /\ [][FailNext]_vars

(***************************************************************************)
(* A BlinkerSignal on its own: a caller calls its four methods in any      *)
(* order, between the ticks of its schedule; the caller may add the same   *)
(* element twice, and may add a value that is no element.                  *)
(***************************************************************************)
BlinkerCall(op, element) ==
    /\ op = "add" => Len(sos_targets) < MaxBlinkerTargets
    /\ op # "add" => element = undefined
    /\ Commit(Method(Cur, "sos", op, element))
    /\ handler' = "sos." \o op
    /\ UNCHANGED << pattern, now >>

BlinkerInit == \E p \in Patterns : InitWith(p, Constructed)

BlinkerNext ==
    \/ \E op \in Ops, element \in Elems \cup { undefined } :
          BlinkerCall(op, element)
    \/ TickUpdate

BlinkerSpec == BlinkerInit /\ [][BlinkerNext]_vars

(***************************************************************************)
(* Properties                                                              *)
(***************************************************************************)
\* Everything the program itself holds: all variables but the clock and the
\* record of the last run.
prog == << pattern, sos_timer, sos_i, sos_targets, alarm_timer, alarm_targets,
           intervals, classList, hawks, observer, listeners >>

\* The active schedules that run callback fn.
Schedules(fn) == { t \in intervals : t.fn = fn }

Said(message) == << "log", message >> \in Range(log)

Played == << "audio", "play" >> \in Range(log)

\* C1 (ApiSpec): whatever start(), stop() calls and ticks came before, the
\* BlinkerSignal has at most one active schedule and so has the AudioSignal,
\* each being the one its timer names; and a start() on a signal whose timer
\* is set, called directly or through the ComposeSignal, leaves the whole
\* program state as it was and plays nothing.
C1_AtMostOne ==
    /\ Cardinality(Schedules("update")) <= 1
    /\ Cardinality(Schedules("play")) <= 1
    /\ sos_timer # undefined =>
           Schedules("update") = { [id |-> sos_timer, fn |-> "update"] }
    /\ alarm_timer # undefined =>
           Schedules("play") = { [id |-> alarm_timer, fn |-> "play"] }

C1_StartArmed ==
    /\ handler' = "sos.start" /\ sos_timer # undefined =>
           UNCHANGED prog /\ log' = << >>
    /\ handler' = "alarm.start" /\ alarm_timer # undefined =>
           UNCHANGED prog /\ log' = << >>
    /\ handler' = "signal.start" /\ sos_timer # undefined
                                 /\ alarm_timer # undefined =>
           UNCHANGED prog /\ ~Played'

C1_OneSchedule == [] C1_AtMostOne /\ [][C1_StartArmed]_vars

\* C1 witness: sos.start() has just returned without logging "start blinker",
\* so the timer was already set, and both signals have their one schedule.
C1_Witness ==
    /\ handler = "sos.start"
    /\ log = << >>
    /\ Cardinality(Schedules("update")) = 1
    /\ Cardinality(Schedules("play")) = 1

\* The classes of a target that shows position 0 of the pattern: a dash
\* there means the on class alone, anything else the off class alone.
Position0 == IF pattern[1] = "-" THEN { on } ELSE { off }

\* The handlers of Spec that end with the targets as BlinkerSignal.stop()
\* left them: a click runs signal.stop and nothing after it.
StopRan == handler = "click"

\* C2 (Spec, shipped pattern): when a run of stop() has returned, after any
\* ticks, add() and start() calls, every target in the blinker's list has
\* exactly the classes of pattern position 0, which for the shipped pattern
\* is the off class without the on class; and a stop() that follows a stop()
\* leaves every classList as it was.
C2_StopShows0 ==
    StopRan => \A e \in Range(sos_targets) :
                   classList[e] = Position0 /\ classList[e] = { off }

C2_SecondStop == StopRan /\ StopRan' => classList' = classList

C3_Stopped ==
    /\ handler \in { "sos.stop", "signal.stop" } =>
           sos_timer = undefined /\ Schedules("update") = {}
    /\ handler \in { "alarm.stop", "signal.stop" } =>
           alarm_timer = undefined /\ Schedules("play") = {}

C3_NoTickUntilStart ==
    /\ sos_timer = undefined =>
           /\ handler' # "update"
           /\ sos_timer' # undefined =>
                  handler' \in { "sos.start", "signal.start" }
    /\ alarm_timer = undefined =>
           /\ handler' # "replay"
           /\ alarm_timer' # undefined =>
                  handler' \in { "alarm.start", "signal.start" }

C3_StopCancels == [] C3_Stopped /\ [][C3_NoTickUntilStart]_vars

\* C3 witness: the ComposeSignal's stop() has stopped a running blinker and
\* an armed alarm; no schedule is left.
C3_Witness ==
    /\ handler = "signal.stop"
    /\ Said("Hawk: stop blinker")
    /\ Said("Hawk: stop alarm")
    /\ intervals = {}

\* How many times the last run called method op of object obj.
Times(obj, op) == Cardinality({ k \in 1..Len(log) : log[k] = << obj, op >> })

\* The step is the first call of the filter of watcher w: first was true.
FirstChange(w) ==
    /\ handler' = "change"
    /\ w \in 1..Len(hawks)
    /\ hawks[w].first
    /\ ~hawks'[w].first

\* The step is a later call of the filter of some watcher: the callback
\* ran and no watcher's first went from true to false.
LaterChange ==
    /\ handler' = "change"
    /\ \A w \in 1..Len(hawks) : ~FirstChange(w)

\* C4 (Spec): with delta = 3000, the first notification of a watcher built
\* at time mark, arriving at a time now with now - mark <= 3000, does not
\* call signal.start; every later notification of a watcher calls
\* signal.start exactly once, inside the window or outside it.
C4_Step ==
    /\ \A w \in 1..Len(hawks) :
           FirstChange(w) /\ now - hawks[w].mark <= 3000 =>
               Times("signal", "start")' = 0
    /\ LaterChange => Times("signal", "start")' = 1

C4_FirstInWindowDropped == [][C4_Step]_vars

\* C4 witness: the only watcher has had a later notification inside its
\* window (the filter logged the drop message for it) and signal.start was
\* called for it all the same.
C4_Witness ==
    /\ handler = "change"
    /\ Len(hawks) = 1
    /\ ~hawks[1].first
    /\ now - hawks[1].mark <= 3000
    /\ Times("signal", "start") = 1
    /\ Said("Hawk: drop too early first change event")

\* C5 as claimed (Spec): the first notification of a watcher built at time
\* mark, arriving at a time now with now - mark > 3000, calls signal.start.
C5_Step ==
    \A w \in 1..Len(hawks) :
        FirstChange(w) /\ now - hawks[w].mark > 3000 =>
            Times("signal", "start")' = 1

C5_FirstAfterWindowPasses == [][C5_Step]_vars

\* C6 as claimed (StaleSpec): a notification that reaches the callback of a
\* watcher after its disconnect() starts no signal: nothing is played, no
\* timer is armed, and every classList stays as disconnect() left it.
C6_Step ==
    handler' = "stale" =>
        /\ ~Played'
        /\ Times("signal", "start")' = 0
        /\ intervals' = intervals
        /\ sos_timer' = sos_timer
        /\ alarm_timer' = alarm_timer
        /\ classList' = classList

C6_StaleNotificationInert == [][C6_Step]_vars

\* Both sub-signals are armed, each with its schedule.
BothArmed ==
    /\ sos_timer # undefined
    /\ alarm_timer # undefined
    /\ Schedules("update") # {}
    /\ Schedules("play") # {}

\* No sub-signal is armed and no schedule is left.
NoneArmed ==
    /\ sos_timer = undefined
    /\ alarm_timer = undefined
    /\ intervals = {}

\* The watchers that are connected.
Connected == { w \in 1..Len(hawks) : hawks[w].observing }

C8_Started ==
    handler = "change" /\ Times("signal", "start") = 1 => BothArmed

C8_Step ==
    \/ sos_timer # undefined /\ sos_timer' = undefined
    \/ alarm_timer # undefined /\ alarm_timer' = undefined
    \/ Schedules("update") # {} /\ Schedules("update")' = {}
    \/ Schedules("play") # {} /\ Schedules("play")' = {}
    => \/ handler' = "click"
       \/ handler' = "load" /\ Said("Hawk: stop observing")'

C8_ArmedUntilClick ==
    /\ [] C8_Started
    /\ [][C8_Step]_vars
    /\ []<>(~BothArmed \/ handler = "update")
    /\ []<>(~BothArmed \/ handler = "replay")

\* C8 witness: both signals are armed and a second watcher has just been
\* connected (its add() ran) while they were; the schedules are still there.
C8_Witness ==
    /\ handler = "load"
    /\ Times("signal", "add") = 1
    /\ Len(sos_targets) = 2
    /\ BothArmed

\* The calls of methods of the signal objects in the log, in order.
IsCall(entry) == entry[1] \in { "signal", "sos", "alarm" }

Calls == SelectSeq(log, IsCall)

\* Position of the first occurrence of an entry in the log (0 if absent).
Position(entry) ==
    IF entry \in Range(log)
    THEN CHOOSE k \in 1..Len(log) :
             log[k] = entry /\ \A j \in 1..(k - 1) : log[j] # entry
    ELSE 0

\* C9 (Spec): in every run of a handler the recorded calls come in groups of
\* three: a call of a method of the ComposeSignal, then the call of the same
\* method of sos, then that of alarm, once each and in the order of the list
\* [sos, alarm], all before the next call of a ComposeSignal method; and
\* when both start, the blinker has started before the alarm.
C9_InOrder ==
    /\ Len(Calls) % 3 = 0
    /\ \A k \in 1..Len(Calls) :
           k % 3 = 1 =>
               /\ Calls[k][1] = "signal"
               /\ Calls[k][2] \in { "start", "stop", "add", "empty" }
               /\ Calls[k + 1] = << "sos", Calls[k][2] >>
               /\ Calls[k + 2] = << "alarm", Calls[k][2] >>
    /\ Said("Hawk: start blinker") /\ Said("Hawk: start alarm") =>
           Position(<< "log", "Hawk: start blinker" >>)
               < Position(<< "log", "Hawk: start alarm" >>)

\* C9 witness: signal.start() has started the blinker and then the alarm.
C9_Witness ==
    /\ handler = "change"
    /\ Calls = << << "signal", "start" >>, << "sos", "start" >>,
                  << "alarm", "start" >> >>
    /\ Said("Hawk: start blinker")
    /\ Said("Hawk: start alarm")
    /\ BothArmed

\* C10 (ApiSpec): empty() of the BlinkerSignal, of the AudioSignal or of the
\* ComposeSignal empties the target list (both lists for the ComposeSignal)
\* and changes nothing else: timers, schedules, cursor and every classList
\* are as before, so the schedule of a running signal is still active.
C10_Step ==
    /\ handler' \in { "sos.empty", "alarm.empty", "signal.empty" } =>
           UNCHANGED << sos_timer, alarm_timer, intervals, sos_i, classList >>
    /\ handler' = "sos.empty" =>
           sos_targets' = << >> /\ UNCHANGED alarm_targets
    /\ handler' = "alarm.empty" =>
           alarm_targets' = << >> /\ UNCHANGED sos_targets
    /\ handler' = "signal.empty" =>
           sos_targets' = << >> /\ alarm_targets' = << >>

C10_EmptyOnlyEmpties == [][C10_Step]_vars

\* C10 witness: the ComposeSignal's empty() has returned with both signals
\* armed and a target, no longer in the list, that still shows the on class.
C10_Witness ==
    /\ handler = "signal.empty"
    /\ BothArmed
    /\ sos_targets = << >>
    /\ \E e \in Elems : classList[e] = { on }

\* The controller is at rest: it has no watcher, or its watcher has been
\* disconnected by rest().
Resting == observer = undefined \/ ~hawks[observer].observing

\* C11 (Spec): while the controller's watcher is connected, the targets of
\* the blinker and of the alarm are the targets of that watcher alone, as
\* they would be if each attack() built its signal anew.  Violated: the
\* signal is built once, and a second attack() without a rest() between
\* (see C12) adds its targets to the list the first attack() filled.
C11_OnlyCurrentTargets ==
    ~Resting =>
        /\ sos_targets = TargetsOf(observer)
        /\ alarm_targets = TargetsOf(observer)

\* C12 (Spec): at most one watcher is connected, and when the controller is
\* at rest no watcher is connected, no click listener is left and no
\* schedule is active.  Violated: attack() overwrites observer without
\* disconnecting the watcher it held, which stays connected for ever.
C12_AtMostOneConnected ==
    /\ Cardinality(Connected) <= 1
    /\ Resting => Connected = {} /\ listeners = {} /\ intervals = {}

C14_Step ==
    handler' = "click" /\ NoneArmed =>
        /\ UNCHANGED << sos_timer, alarm_timer, intervals, sos_i, sos_targets,
                        alarm_targets >>
        /\ ~Said("Hawk: stop blinker")' /\ ~Said("Hawk: stop alarm")'
        /\ classList' = [e \in Elems |->
                            IF e \in Range(sos_targets)
                            THEN Position0
                            ELSE classList[e]]

C19_ArmedTogether ==
    /\ (sos_timer # undefined) <=> (alarm_timer # undefined)
    /\ (Schedules("update") # {}) <=> (Schedules("play") # {})
    /\ (sos_timer # undefined) <=> (Schedules("update") # {})

\* C19 witness: with two watchers connected a replay tick has run while
\* both sub-signals are armed.
C19_Witness ==
    /\ handler = "replay"
    /\ BothArmed
    /\ Cardinality(Connected) = 2

\* The replay callback has just run and its audio.play() failed.
PlaybackFailed == handler = "replay" /\ << "audio", "rejected" >> \in Range(log)

\* C18 (ApiSpec): a replay tick, whether its playback succeeds or fails,
\* changes neither the alarm's timer nor any schedule nor anything else of
\* the signals; an armed alarm always has its replay schedule, so the next
\* replay tick is due; and the alarm is disarmed, or its schedule removed,
\* only by a stop() of the alarm or of the composed signal.
C18_Step ==
    /\ handler' = "replay" =>
           UNCHANGED << sos_timer, sos_i, sos_targets, alarm_timer,
                        alarm_targets, intervals, classList >>
    /\ \/ alarm_timer # undefined /\ alarm_timer' = undefined
       \/ Schedules("play") # {} /\ Schedules("play")' = {}
       => handler' \in { "alarm.stop", "signal.stop" }

C18_FailureKeepsSchedule ==
    /\ [](alarm_timer # undefined => Schedules("play") # {})
    /\ [](PlaybackFailed => alarm_timer # undefined /\ Schedules("play") # {})
    /\ [][C18_Step]_vars

\* C18 witness: a replay tick whose playback failed has run on an armed
\* alarm, and the alarm is armed with its schedule afterwards.
C18_Witness ==
    /\ PlaybackFailed
    /\ alarm_timer # undefined
    /\ Cardinality(Schedules("play")) = 1

\* The handler that ran last ended by an exception.
Thrown == \E k \in 1..Len(log) : log[k][1] = "throw"

\* The constructor or stop() of the BlinkerSignal ran last.
BlinkerStopRan == handler \in { "new", "sos.stop" }

\* C13 as stated (BlinkerSpec): after construction and after every stop()
\* the blinker is not running and i = 0.  Violated: stop() sets i to 0 and
\* then calls update(), which advances i.
C13_StopLeavesCursor0 ==
    BlinkerStopRan => sos_timer = undefined /\ sos_i = 0

\* C13 (BlinkerSpec), amended: after construction and after every stop()
\* the blinker is not running and has no schedule, and i is 1 modulo the
\* length of the pattern (0 for a pattern of length 1 only), update() having
\* painted position 0 and advanced; i is 0 only when that update() threw on
\* a target that is no element.
C13_StopLeavesCursor1 ==
    BlinkerStopRan =>
        /\ sos_timer = undefined
        /\ Schedules("update") = {}
        /\ sos_i = IF Thrown THEN 0 ELSE 1 % Len(pattern)

\* C13 witness: stop() has cancelled a running blinker whose pattern has
\* three positions, and i is 1.
C13_Witness ==
    /\ handler = "sos.stop"
    /\ Said("Hawk: stop blinker")
    /\ Len(pattern) = 3
    /\ sos_targets # << >>
    /\ sos_i = 1

\* C15 (BlinkerSpec): add(target) puts the target at the end of the list,
\* also when it is in the list already, and changes nothing else; a
\* classList changes only in an update(), run by a tick or by stop(), and
\* an update() that returns leaves every listed target with one class.
C15_Step ==
    /\ handler' = "sos.add" =>
           /\ \E element \in Elems \cup { undefined } :
                  sos_targets' = Append(sos_targets, element)
           /\ UNCHANGED << sos_timer, sos_i, intervals, classList,
                           alarm_timer, alarm_targets >>
    /\ classList' # classList => handler' \in { "update", "sos.stop" }
    /\ handler' \in { "update", "sos.stop" } /\ ~Thrown' =>
           \A e \in Range(sos_targets) : classList'[e] \in { { on }, { off } }

C15_AddOnlyAppends == [][C15_Step]_vars

\* C15 witness: add() has returned on a running blinker; the new target,
\* last in the list, shows no class yet, and the target added before it,
\* which has been painted, is still in front of it.
C15_Witness ==
    /\ handler = "sos.add"
    /\ sos_timer # undefined
    /\ sos_targets = << 1, 2 >>
    /\ classList[1] # {}
    /\ classList[2] = {}

\* The class that update() gives a target at position k of the pattern.
ClassAt(k) == IF PatternAt(k) = "-" THEN { on } ELSE { off }

\* The targets that an update() on the current list reaches: all of them,
\* or those in front of the first target that is no element.
Reached ==
    { sos_targets[k] : k \in { j \in 1..Len(sos_targets) :
                                 \A m \in 1..j : sos_targets[m] \in Elems } }

\* C20 (BlinkerSpec): an element never shows both classes; once it shows a
\* class it shows exactly one for ever, also after empty() has taken it
\* from the list; and an update() gives every target it reaches the class
\* of the pattern position it ran at (i for a tick, 0 for a stop()) and
\* leaves the other elements as they are.
C20_OneClass == \A e \in Elems : classList[e] \in { {}, { on }, { off } }

C20_Step ==
    /\ \A e \in Elems : classList[e] # {} => classList'[e] # {}
    /\ handler' \in { "update", "sos.stop" } =>
           classList' = [e \in Elems |->
                            IF e \in Reached
                            THEN ClassAt(IF handler' = "update" THEN sos_i ELSE 0)
                            ELSE classList[e]]

C16_Step ==
    /\ handler' \in { "connect", "disconnect" } =>
           \A w \in 1..Len(hawks) :
               /\ hawks'[w].first = hawks[w].first
               /\ hawks'[w].mark = hawks[w].mark
               /\ hawks'[w].early = hawks[w].early
    /\ \A w \in 1..Len(hawks) :
           /\ hawks'[w].mark = hawks[w].mark
           /\ hawks'[w].first # hawks[w].first =>
                  hawks[w].first /\ handler' = "change"
    /\ handler' = "looking" =>
           /\ hawks'[Len(hawks')].first
           /\ hawks'[Len(hawks')].mark = now
    /\ handler' = "change" /\ (\A w \in Connected : ~hawks[w].first) =>
           Times("signal", "start")' = 1

C16_FilterSurvivesReconnect == [][C16_Step]_vars

\* C16 witness: the only watcher, which received a notification earlier
\* and was disconnected since, has just been connected again, within the
\* window of its construction; its first is still false.
C16_Witness ==
    /\ handler = "connect"
    /\ Len(hawks) = 1
    /\ hawks[1].observing
    /\ ~hawks[1].first
    /\ now - hawks[1].mark <= delta

\* A method of one of the two ComposeSignal objects ran last.
ComposedRan(name) == handler \in { name \o "." \o op : op \in Ops }

\* C17 (FailSpec): when the blinker throws in a ComposeSignal call, the
\* throw is the last thing the call does: in the list blinker, alarm the
\* alarm's method is not invoked, and a stop() leaves the alarm's timer and
\* schedule as they were; in the list alarm, blinker the alarm's method was
\* invoked once and has completed before the blinker threw.
C17_ThrowEnds ==
    /\ log[Len(log)] = << "throw", "TypeError" >>
    /\ Times("throw", "TypeError") = 1
    /\ Calls[Len(Calls)][1] = "sos"
    /\ Times("sos", Calls[Len(Calls)][2]) = 1

C17_Step ==
    /\ (ComposedRan("signal") \/ ComposedRan("reversed"))' /\ Thrown' =>
           C17_ThrowEnds'
    /\ ComposedRan("signal")' /\ Thrown' =>
           /\ \A op \in Ops : Times("alarm", op)' = 0
           /\ UNCHANGED << alarm_timer, alarm_targets >>
           /\ Schedules("play")' = Schedules("play")
    /\ ComposedRan("reversed")' /\ Thrown' =>
           /\ Times("alarm", "stop")' = 1
           /\ alarm_timer' = undefined
           /\ Schedules("play")' = {}

C17_FailureAbortsRest == [][C17_Step]_vars

\* C17 witness: stop() of the ComposeSignal of blinker and alarm, both
\* running, has ended by the throw of the blinker's stop(), which had
\* cancelled the blinker's schedule; the alarm is still armed.
C17_Witness ==
    /\ handler = "signal.stop"
    /\ Thrown
    /\ Said("Hawk: stop blinker")
    /\ sos_timer = undefined
    /\ alarm_timer # undefined
    /\ Schedules("play") # {}

====
